---------------------------- MODULE Spec2Model ----------------------------
(***************************************************************************)
(* TCF 2.x consent-string parsing of go-gdpr (vendorconsent/tcf2):         *)
(* ParseString, parseCoreAndDisclosedVendors, Parse, decodeSegment,        *)
(* getSegmentType and parseDisclosedVendorsSegment.                        *)
(*                                                                         *)
(* A string is a sequence of one-character strings.  A byte buffer is a    *)
(* sequence of bits (0/1) whose length is a multiple of 8; bit offsets are *)
(* 0-based as in the code, so bit b of a buffer is data[b + 1].            *)
(***************************************************************************)
EXTENDS Integers, Sequences, FiniteSets, TLC

(***************************************************************************)
(* Bounds of the model.                                                    *)
(***************************************************************************)
\* the largest number of segments after the core segment in an input
MaxTrailing == 2
\* vendor ids 0..MaxQueryId (and 65535) are queried on a result
MaxQueryId == 12

(***************************************************************************)
(* Constants of the code.                                                  *)
(***************************************************************************)
consentStringTCF2Separator == "."
SegmentTypeCoreString == 0
SegmentTypeDisclosedVendors == 1
SegmentTypePublisherTC == 3

NoErr == "nil"
ErrEmptyDecodedConsent == "decoded consent cannot be empty"
ErrEmptySegment == "empty segment string"
ErrDecodeSegment == "failed to decode segment"
ErrSegmentTooShort == "segment too short"
ErrNoLegitIntStart == "invalid consent data: no legitimate interest start position"
ErrDisclosedVendors == "failed to parse disclosed vendors segment"
ErrMetadata == "vendor consent strings are at least 29 bytes long"
ErrOutOfRange == "bit range out of bounds"
ErrTruncated == "not enough bits"
\* a Go runtime panic (index out of range), which no caller recovers
Panic == "panic: index out of range"

(***************************************************************************)
(* base64.RawURLEncoding.Decode (Go standard library): the URL alphabet    *)
(* without padding; '\r' and '\n' are skipped; any other character outside *)
(* the alphabet, or a final group of one character, is a CorruptInputError;*)
(* the bits of a final group beyond its whole bytes are dropped.           *)
(***************************************************************************)
B64Alphabet ==
  <<"A","B","C","D","E","F","G","H","I","J","K","L","M","N","O","P","Q","R",
    "S","T","U","V","W","X","Y","Z","a","b","c","d","e","f","g","h","i","j",
    "k","l","m","n","o","p","q","r","s","t","u","v","w","x","y","z","0","1",
    "2","3","4","5","6","7","8","9","-","_">>

B64Chars == {B64Alphabet[i] : i \in DOMAIN B64Alphabet}

B64Value == [c \in B64Chars |-> (CHOOSE i \in DOMAIN B64Alphabet : B64Alphabet[i] = c) - 1]

IsLineBreak(c) == c \in {"\n", "\r"}

Pow2(n) == IF n = 0 THEN 1 ELSE 2 ^ n

\* bit k (0-based, most significant first) of the 6-bit value of character c
B64Bit(c, k) == (B64Value[c] \div Pow2(5 - k)) % 2

RawURLDecode(src) ==
  LET sig == SelectSeq(src, LAMBDA c : ~IsLineBreak(c))
      n   == Len(sig)
  IN  IF (\E i \in 1..n : sig[i] \notin B64Chars) \/ n % 4 = 1
        THEN [err |-> TRUE, data |-> <<>>]
        ELSE [err |-> FALSE,
              data |-> [b \in 1..(((n * 6) \div 8) * 8) |->
                          B64Bit(sig[((b - 1) \div 6) + 1], (b - 1) % 6)]]

ByteLen(data) == Len(data) \div 8

\* decodeSegment decodes a base64 encoded segment string.
decodeSegment(segmentString) ==
  IF segmentString = <<>>
    THEN [err |-> ErrEmptySegment, data |-> <<>>]
    ELSE LET r == RawURLDecode(segmentString)
         IN  IF r.err THEN [err |-> ErrDecodeSegment, data |-> <<>>]
                      ELSE [err |-> NoErr, data |-> r.data]

(***************************************************************************)
(* Bit reader (bitutils and isSet).                                        *)
(***************************************************************************)
RECURSIVE BitsValue(_, _, _)
\* the unsigned integer held by the w bits of data from bit offset off
BitsValue(data, off, w) ==
  IF w = 0 THEN 0
  ELSE 2 * BitsValue(data, off, w - 1) + data[off + w]

InBuffer(data, off, w) == off + w <= Len(data)

\* a checked read of w bits: an error when the bits are not all in the buffer
ParseUInt(data, off, w) ==
  IF InBuffer(data, off, w)
    THEN [err |-> NoErr, value |-> BitsValue(data, off, w)]
    ELSE [err |-> ErrOutOfRange, value |-> 0]

ParseUInt16(data, off) == ParseUInt(data, off, 16)
ParseUInt12(data, off) == ParseUInt(data, off, 12)
ParseByte8(data, off) == ParseUInt(data, off, 8)

\* isSet indexes data[bitIndex / 8] unchecked: outside the buffer it panics
isSetPanics(data, bitIndex) == bitIndex \div 8 >= ByteLen(data)
isSet(data, bitIndex) == data[bitIndex + 1] = 1

\* the record of one bit read: at the place site of the code, w bits at
\* offset off of a buffer of len bits
Read(site, data, off, w) ==
  [site |-> site, len |-> Len(data), off |-> off, width |-> w]

(***************************************************************************)
(* Vendor sets (vendorConsentsResolver): a bit field or a range section.   *)
(***************************************************************************)
NilResolver == [kind |-> "nil", data |-> <<>>, startbit |-> 0,
                ranges |-> <<>>, maxVendorID |-> 0]

\* membership: false below 1 and above the set's maximum vendor id
VendorConsentOf(set, id) ==
  IF id < 1 \/ id > set.maxVendorID THEN FALSE
  ELSE IF set.kind = "bitfield" THEN isSet(set.data, set.startbit + id - 1)
  ELSE \E i \in DOMAIN set.ranges :
         set.ranges[i].startID <= id /\ id <= set.ranges[i].endID

\* a bit field of vendorBitsRequired bits from startbit
parseBitField(metadata, vendorBitsRequired, startbit) ==
  IF ~InBuffer(metadata.data, startbit, vendorBitsRequired)
    THEN [err |-> ErrTruncated, set |-> NilResolver, next |-> 0]
    ELSE [err |-> NoErr,
          set |-> [kind |-> "bitfield", data |-> metadata.data,
                   startbit |-> startbit, ranges |-> <<>>,
                   maxVendorID |-> vendorBitsRequired],
          next |-> startbit + vendorBitsRequired]

RECURSIVE parseRangeEntries(_, _, _, _)
\* left range entries from bit offset off: a 1-bit flag, then one 16-bit id
\* (a range of one) or two (an inclusive range)
parseRangeEntries(data, left, off, acc) ==
  IF left = 0 THEN [err |-> NoErr, ranges |-> acc, next |-> off]
  ELSE LET flag == ParseUInt(data, off, 1)
           a    == ParseUInt16(data, off + 1)
           b    == ParseUInt16(data, off + 17)
       IN  IF flag.err # NoErr \/ a.err # NoErr
             THEN [err |-> ErrTruncated, ranges |-> <<>>, next |-> 0]
           ELSE IF flag.value = 0
             THEN parseRangeEntries(data, left - 1, off + 17,
                    Append(acc, [startID |-> a.value, endID |-> a.value]))
           ELSE IF b.err # NoErr
             THEN [err |-> ErrTruncated, ranges |-> <<>>, next |-> 0]
           ELSE parseRangeEntries(data, left - 1, off + 33,
                    Append(acc, [startID |-> a.value, endID |-> b.value]))

\* a range section: a 12-bit count of ranges, then the ranges
parseRangeSection(metadata, maxVendorID, startbit) ==
  LET numRanges == ParseUInt12(metadata.data, startbit)
  IN  IF numRanges.err # NoErr
        THEN [err |-> ErrTruncated, set |-> NilResolver, next |-> 0]
      ELSE LET r == parseRangeEntries(metadata.data, numRanges.value,
                                      startbit + 12, <<>>)
           IN  IF r.err # NoErr
                 THEN [err |-> r.err, set |-> NilResolver, next |-> 0]
                 ELSE [err |-> NoErr,
                       set |-> [kind |-> "range", data |-> <<>>, startbit |-> 0,
                                ranges |-> r.ranges, maxVendorID |-> maxVendorID],
                       next |-> r.next]

RECURSIVE parsePubRestrictionEntries(_, _, _, _)
\* left restrictions from off: 6-bit purpose, 2-bit type, then a range list
parsePubRestrictionEntries(data, left, off, acc) ==
  IF left = 0 THEN [err |-> NoErr, restrictions |-> acc, next |-> off]
  ELSE LET purpose == ParseUInt(data, off, 6)
           rtype   == ParseUInt(data, off + 6, 2)
           count   == ParseUInt12(data, off + 8)
       IN  IF purpose.err # NoErr \/ rtype.err # NoErr \/ count.err # NoErr
             THEN [err |-> ErrTruncated, restrictions |-> <<>>, next |-> 0]
           ELSE LET r == parseRangeEntries(data, count.value, off + 20, <<>>)
                IN  IF r.err # NoErr
                      THEN [err |-> r.err, restrictions |-> <<>>, next |-> 0]
                      ELSE parsePubRestrictionEntries(data, left - 1, r.next,
                             Append(acc, [purpose |-> purpose.value,
                                          restrictType |-> rtype.value,
                                          ranges |-> r.ranges]))

\* the publisher restrictions: a 12-bit count, then the restrictions
parsePubRestriction(metadata, startbit) ==
  LET numRestrictions == ParseUInt12(metadata.data, startbit)
  IN  IF numRestrictions.err # NoErr
        THEN [err |-> ErrTruncated, restrictions |-> <<>>, next |-> 0]
        ELSE parsePubRestrictionEntries(metadata.data, numRestrictions.value,
                                        startbit + 12, <<>>)

(***************************************************************************)
(* ConsentMetadata and the header decoder.                                 *)
(***************************************************************************)
MinHeaderBytes == 29

ConsentMetadataZero ==
  [data |-> <<>>,
   vendorConsents |-> NilResolver,
   vendorLegitimateInterests |-> NilResolver,
   vendorLegitimateInterestStart |-> 0,
   pubRestrictionsStart |-> 0,
   publisherRestrictions |-> <<>>,
   disclosedVendors |-> NilResolver,
   hasDisclosedVendors |-> FALSE]

\* parseMetadata: the length check that guards every fixed header field
parseMetadata(data) ==
  IF ByteLen(data) < MinHeaderBytes
    THEN [err |-> ErrMetadata, value |-> ConsentMetadataZero]
    ELSE [err |-> NoErr, value |-> [ConsentMetadataZero EXCEPT !.data = data]]

\* header accessors (a 36-bit timestamp is kept as its two 18-bit halves)
Version(m) == BitsValue(m.data, 0, 6)
Created(m) == <<BitsValue(m.data, 6, 18), BitsValue(m.data, 24, 18)>>
LastUpdated(m) == <<BitsValue(m.data, 42, 18), BitsValue(m.data, 60, 18)>>
CmpID(m) == BitsValue(m.data, 78, 12)
CmpVersion(m) == BitsValue(m.data, 90, 12)
ConsentScreen(m) == BitsValue(m.data, 102, 6)
Letter(code) == IF code < 26 THEN B64Alphabet[code + 1] ELSE "?"
ConsentLanguage(m) ==
  <<Letter(BitsValue(m.data, 108, 6)), Letter(BitsValue(m.data, 114, 6))>>
VendorListVersion(m) == BitsValue(m.data, 120, 12)
TCFPolicyVersion(m) == BitsValue(m.data, 132, 6)
MaxVendorID(m) == BitsValue(m.data, 213, 16)
PurposesAllowed(m) == SubSeq(m.data, 153, 176)
VendorConsent(m, id) == VendorConsentOf(m.vendorConsents, id)
VendorLegitInterest(m, id) == VendorConsentOf(m.vendorLegitimateInterests, id)

\* disclosed-vendors accessors of the facade
VendorDisclosed(m, id) ==
  IF m.disclosedVendors.kind = "nil" THEN FALSE
  ELSE VendorConsentOf(m.disclosedVendors, id)
VendorDisclosedMaxVendorId(m) ==
  IF m.disclosedVendors.kind = "nil" THEN 0 ELSE m.disclosedVendors.maxVendorID
HasDisclosedVendors(m) == m.hasDisclosedVendors

\* an api.VendorConsents interface value: nil, or holding a ConsentMetadata
NilResult == [nil |-> TRUE, meta |-> ConsentMetadataZero]
Result(m) == [nil |-> FALSE, meta |-> m]

(***************************************************************************)
(* Parse: the Core String.  A result carries the bit reads made by the     *)
(* code of Parse itself, in order.                                         *)
(***************************************************************************)
ParseFail(err, reads) == [err |-> err, result |-> NilResult, reads |-> reads]

\* the vendor set at startbit, range section or bit field by the flag
parseVendorSection(isRange, metadata, maxVendorID, startbit) ==
  IF isRange THEN parseRangeSection(metadata, maxVendorID, startbit)
             ELSE parseBitField(metadata, maxVendorID, startbit)

\* the check with > for >=: the flag just past the buffer's end is let through
noLegitIntStartOffByOne(data, legitIntStart) ==
  legitIntStart + 16 > ByteLen(data) * 8

\* the check of Parse before the legitimate-interest encoding flag is read
noLegitIntStart(data, legitIntStart) == legitIntStart + 16 >= ByteLen(data) * 8

\* Parse from the legitimate-interest header on
ParseLegitInts(data, metadata, vendorConsents, legitIntStart, reads) ==
  LET m1 == [metadata EXCEPT !.vendorConsents = vendorConsents,
                             !.vendorLegitimateInterestStart = legitIntStart + 17]
      legIntMaxVend == ParseUInt16(data, legitIntStart)
      reads1 == Append(reads, Read("Parse: legIntMaxVend", data, legitIntStart, 16))
      reads2 == Append(reads1, Read("Parse: legitIntStart+16", data, legitIntStart + 16, 1))
  IN  IF legIntMaxVend.err # NoErr THEN ParseFail(legIntMaxVend.err, reads)
      ELSE IF noLegitIntStart(data, legitIntStart)
        THEN ParseFail(ErrNoLegitIntStart, reads1)
      ELSE IF isSetPanics(data, legitIntStart + 16) THEN ParseFail(Panic, reads2)
      ELSE LET li == parseVendorSection(isSet(data, legitIntStart + 16), m1,
                       legIntMaxVend.value, m1.vendorLegitimateInterestStart)
           IN  IF li.err # NoErr THEN ParseFail(li.err, reads2)
               ELSE LET m2 == [m1 EXCEPT !.vendorLegitimateInterests = li.set,
                                         !.pubRestrictionsStart = li.next]
                        pr == parsePubRestriction(m2, li.next)
                    IN  IF pr.err # NoErr THEN ParseFail(pr.err, reads2)
                        ELSE [err |-> NoErr,
                              result |-> Result([m2 EXCEPT
                                 !.publisherRestrictions = pr.restrictions]),
                              reads |-> reads2]

Parse(data) ==
  LET md == parseMetadata(data)
      reads0 == <<Read("Parse: 229", data, 229, 1)>>
  IN  IF md.err # NoErr THEN ParseFail(md.err, <<>>)
      ELSE IF isSetPanics(data, 229) THEN ParseFail(Panic, reads0)
      ELSE LET vc == parseVendorSection(isSet(data, 229), md.value,
                                        MaxVendorID(md.value), 230)
           IN  IF vc.err # NoErr THEN ParseFail(vc.err, reads0)
               ELSE ParseLegitInts(data, md.value, vc.set, vc.next, reads0)

(***************************************************************************)
(* The Disclosed Vendors segment.                                          *)
(***************************************************************************)
\* getSegmentType extracts the 3-bit segment type from the segment data
getSegmentType(data) ==
  IF ByteLen(data) < 1 THEN [err |-> ErrSegmentTooShort, value |-> 0]
  ELSE [err |-> NoErr, value |-> BitsValue(data, 0, 8) \div 32]

DVFail(err, reads) == [err |-> err, set |-> NilResolver, reads |-> reads]

\* the least length of a segment whose fixed fields (20 bits) can be read
MinDisclosedVendorsBytes == 3

parseDisclosedVendorsSegment(data) ==
  LET segmentType == ParseByte8(data, 0)
      maxVendorID == ParseUInt16(data, 3)
      reads1 == <<Read("parseDisclosedVendorsSegment: segmentType", data, 0, 8)>>
      reads2 == Append(reads1, Read("parseDisclosedVendorsSegment: maxVendorID", data, 3, 16))
      reads3 == Append(reads2, Read("parseDisclosedVendorsSegment: isRangeEncoding", data, 19, 1))
      tempMetadata == [ConsentMetadataZero EXCEPT !.data = data]
  IN  IF ByteLen(data) = 0 THEN DVFail("data is empty", <<>>)
      ELSE IF ByteLen(data) < MinDisclosedVendorsBytes
        THEN DVFail(ErrSegmentTooShort, <<>>)
      ELSE IF segmentType.err # NoErr THEN DVFail(segmentType.err, <<>>)
      ELSE IF segmentType.value \div 32 # SegmentTypeDisclosedVendors
        THEN DVFail("expected segment type 1", reads1)
      ELSE IF maxVendorID.err # NoErr THEN DVFail(maxVendorID.err, reads1)
      ELSE IF isSetPanics(data, 19) THEN DVFail(Panic, reads3)
      ELSE LET vs == parseVendorSection(isSet(data, 19), tempMetadata,
                                        maxVendorID.value, 20)
           IN  IF vs.err # NoErr THEN DVFail(vs.err, reads3)
               ELSE [err |-> NoErr, set |-> vs.set, reads |-> reads3]

(***************************************************************************)
(* ParseString and parseCoreAndDisclosedVendors.                           *)
(***************************************************************************)
RECURSIVE Split(_, _)
\* strings.Split(s, sep) for a one-character separator
Split(s, sep) ==
  IF \A i \in DOMAIN s : s[i] # sep THEN <<s>>
  ELSE LET i == CHOOSE k \in DOMAIN s : s[k] = sep /\ \A j \in 1..(k - 1) : s[j] # sep
       IN  <<SubSeq(s, 1, i - 1)>> \o Split(SubSeq(s, i + 1, Len(s)), sep)

\* the core string (always the first segment): decoded, then parsed
parseCore(segments) ==
  LET coreSegmentDecoded == decodeSegment(segments[1])
      result == Parse(coreSegmentDecoded.data)
  IN  IF coreSegmentDecoded.err # NoErr
        THEN [err |-> coreSegmentDecoded.err, metadata |-> ConsentMetadataZero,
              reads |-> <<>>]
      ELSE IF result.err # NoErr
        THEN [err |-> result.err, metadata |-> ConsentMetadataZero,
              reads |-> result.reads]
      ELSE [err |-> NoErr, metadata |-> result.result.meta, reads |-> result.reads]

\* the loop looks at the segment after the core string only
FirstTrailingSegmentOnly(segments) ==
  IF Len(segments) > 1 THEN <<segments[2]>> ELSE <<>>

\* the segments the loop ranges over: segments[1:]
TrailingSegments(segments) == Tail(segments)

\* no segment is skipped: an empty one goes to decodeSegment
skipsNoSegment(segment) == FALSE

\* an empty segment is skipped
skipsSegment(segment) == segment = <<>>

\* the segment is dispatched to the Disclosed Vendors decoder
isDisclosedVendorsType(segmentType) == segmentType = SegmentTypeDisclosedVendors

\* the flag is set for any decoded segment, outside the test of its type
withOtherSegmentFlagged(metadata, segmentType) ==
  [metadata EXCEPT !.hasDisclosedVendors = TRUE]

\* the metadata after a segment of another type: nothing is recorded
withOtherSegment(metadata, segmentType) == metadata

\* the flag is set only when the segment discloses some vendor
withDisclosedVendorsIfAny(metadata, disclosedVendors) ==
  [metadata EXCEPT !.disclosedVendors = disclosedVendors,
                   !.hasDisclosedVendors =
                      \E id \in 1..disclosedVendors.maxVendorID :
                        VendorConsentOf(disclosedVendors, id)]

\* the decoded set is stored over the vendor consents of the core string too
withDisclosedVendorsOverConsents(metadata, disclosedVendors) ==
  [metadata EXCEPT !.vendorConsents = disclosedVendors,
                   !.disclosedVendors = disclosedVendors,
                   !.hasDisclosedVendors = TRUE]

\* the metadata with a decoded Disclosed Vendors segment recorded
withDisclosedVendors(metadata, disclosedVendors) ==
  [metadata EXCEPT !.disclosedVendors = disclosedVendors,
                   !.hasDisclosedVendors = TRUE]

\* the loop goes on after a Disclosed Vendors segment: the last one wins
afterDisclosedVendorsContinue == "continue"

\* what the loop does once a Disclosed Vendors segment is recorded
afterDisclosedVendors == "break"

\* one iteration of the loop over the trailing segments; next is what the
\* loop does after it: "continue", "break" or "return" (with err)
scanSegment(metadata, segment) ==
  LET decoded == decodeSegment(segment)
      segmentType == getSegmentType(decoded.data)
      disclosedVendors == parseDisclosedVendorsSegment(decoded.data)
      fail(err, reads) == [next |-> "return", err |-> err,
                           metadata |-> ConsentMetadataZero, reads |-> reads]
  IN  IF skipsSegment(segment)
        THEN [next |-> "continue", err |-> NoErr, metadata |-> metadata,
              reads |-> <<>>]
      ELSE IF decoded.err # NoErr THEN fail(decoded.err, <<>>)
      ELSE IF segmentType.err # NoErr THEN fail(segmentType.err, <<>>)
      ELSE IF ~isDisclosedVendorsType(segmentType.value)
        THEN [next |-> "continue", err |-> NoErr,
              metadata |-> withOtherSegment(metadata, segmentType.value),
              reads |-> <<>>]
      ELSE IF disclosedVendors.err # NoErr
        THEN fail(IF disclosedVendors.err = Panic THEN Panic
                  ELSE ErrDisclosedVendors, disclosedVendors.reads)
      ELSE [next |-> afterDisclosedVendors, err |-> NoErr,
            metadata |-> withDisclosedVendors(metadata, disclosedVendors.set),
            reads |-> disclosedVendors.reads]

RECURSIVE scanSegments(_, _)
\* the loop over the trailing segments, from the metadata of the core string
scanSegments(metadata, rest) ==
  IF rest = <<>> THEN [err |-> NoErr, metadata |-> metadata]
  ELSE LET s == scanSegment(metadata, Head(rest))
       IN  IF s.next = "continue" THEN scanSegments(s.metadata, Tail(rest))
           ELSE [err |-> s.err, metadata |-> s.metadata]

parseCoreAndDisclosedVendors(consent) ==
  LET segments == Split(consent, consentStringTCF2Separator)
      core == parseCore(segments)
  IN  IF core.err # NoErr THEN [err |-> core.err, metadata |-> core.metadata]
      ELSE scanSegments(core.metadata, TrailingSegments(segments))

\* what ParseString returns for an empty string
ParseStringEmpty == [result |-> NilResult, err |-> ErrEmptyDecodedConsent]

\* the metadata is returned beside the error
ParseStringReturnBoth(consentMeta, err) ==
  [result |-> Result(consentMeta), err |-> err]

\* what ParseString returns from the outcome of parseCoreAndDisclosedVendors
ParseStringReturn(consentMeta, err) ==
  IF err # NoErr THEN [result |-> NilResult, err |-> err]
  ELSE [result |-> Result(consentMeta), err |-> NoErr]

\* ParseString parses the TCF 2.0 vendor string base64 encoded
ParseString(consent) ==
  IF consent = <<>> THEN ParseStringEmpty
  ELSE LET r == parseCoreAndDisclosedVendors(consent)
       IN  ParseStringReturn(r.metadata, r.err)

(***************************************************************************)
(* Inputs: consent strings made of a core segment and up to MaxTrailing    *)
(* trailing segments.                                                      *)
(***************************************************************************)
\* the core string of TestSegmentsInAnyOrder: 35 bytes, 10 vendors, bit fields
CoreBitField ==
  <<"C","O","w","G","V","J","O","O","w","G","V","J","O","A","D","A","C","H",
    "E","N","A","O","C","A","A","O","6","a","s","_","-","A","A","A","h","o",
    "A","F","N","L","A","A","o","A","A","A","A">>

\* the core string of TestParseDisclosedVendors: 49 bytes, a range section
CoreRange ==
  <<"C","O","y","i","I","L","m","O","y","i","I","L","m","A","D","A","C","H",
    "E","N","A","P","C","A","A","A","A","A","A","A","A","A","A","A","A","A",
    "E","5","Q","B","g","A","L","g","A","q","g","D","8","A","Q","A","C","S",
    "w","E","y","g","J","y","A","A","A","A","A","A">>

\* whole cores, cores cut to 32, 31, 29 and 28 bytes, an empty core, and a
\* core that is not base64
Cores ==
  {CoreBitField, CoreRange,
   SubSeq(CoreBitField, 1, 43), SubSeq(CoreBitField, 1, 42),
   SubSeq(CoreBitField, 1, 39), SubSeq(CoreBitField, 1, 38),
   <<>>, <<"C", "!">>}

\* Disclosed Vendors segments (type 1) that decode
DVBitField135 == <<"I","A","F","K","g","A">>    \* 10 vendors, 1, 3, 5 disclosed
DVBitFieldNone == <<"I","A","B","g">>            \* 3 vendors, none disclosed
DVBitField2 == <<"I","A","B","k">>               \* 3 vendors, 2 disclosed
DVRange2to4 == <<"I","A","C","w","A","Y","A","B","A","A","I","A">>  \* 5 vendors, 2..4
\* type 1 segments that do not: 1 byte, 2 bytes, and 3 bytes for 10 vendors
DVOneByte == <<"I","A">>
DVTooShort == <<"I","A","E">>
DVTruncated == <<"I","A","F","K">>
\* the Publisher TC segment (type 3) of TestSegmentsInAnyOrder
PublisherTC == <<"Y","A","A","A">>
\* not base64, and a line break alone (it decodes to no byte)
BadBase64 == <<"I","!">>
OnlyLineBreak == <<"\n">>

SegmentPool ==
  {<<>>, DVBitField135, DVBitFieldNone, DVBitField2, DVRange2to4, DVOneByte,
   DVTooShort, DVTruncated, PublisherTC, BadBase64, OnlyLineBreak}

Tails == UNION {[1..n -> SegmentPool] : n \in 0..MaxTrailing}

RECURSIVE Join(_, _)
\* the segments joined by the separator
Join(segs, sep) ==
  IF Len(segs) = 1 THEN segs[1]
  ELSE segs[1] \o <<sep>> \o Join(Tail(segs), sep)

Inputs == {Join(<<c>> \o t, consentStringTCF2Separator) : c \in Cores, t \in Tails}

(***************************************************************************)
(* One call of ParseString, step by step.                                  *)
(***************************************************************************)
VARIABLES
  consent,    \* the argument of ParseString
  pc,         \* "ParseString", "core", "scan", "return" or "done"
  segments,   \* the segments of consent, once split
  idx,        \* the index in segments of the next segment of the loop
  metadata,   \* the local variable metadata
  ret,        \* what ParseString returned: [result, err]
  reads,      \* the bit reads made so far by Parse and the segment decoder
  decodes     \* the number of calls of decodeSegment so far

vars == <<consent, pc, segments, idx, metadata, ret, reads, decodes>>

Init ==
  /\ consent \in Inputs
  /\ pc = "ParseString"
  /\ segments = <<>>
  /\ idx = 0
  /\ metadata = ConsentMetadataZero
  /\ ret = [result |-> NilResult, err |-> NoErr]
  /\ reads = <<>>
  /\ decodes = 0

\* ParseString is entered: an empty string returns at once, any other is split
Enter ==
  /\ pc = "ParseString"
  /\ IF consent = <<>>
       THEN /\ ret' = ParseStringEmpty
            /\ pc' = "done"
            /\ UNCHANGED segments
       ELSE /\ segments' = Split(consent, consentStringTCF2Separator)
            /\ pc' = "core"
            /\ UNCHANGED ret
  /\ UNCHANGED <<consent, idx, metadata, reads, decodes>>

\* the first segment is decoded and parsed as the core string
ParseCore ==
  /\ pc = "core"
  /\ LET core == parseCore(segments)
     IN  /\ reads' = reads \o core.reads
         /\ IF core.err # NoErr
              THEN /\ ret' = ParseStringReturn(core.metadata, core.err)
                   /\ pc' = "done"
                   /\ UNCHANGED <<metadata, idx>>
              ELSE /\ metadata' = core.metadata
                   /\ idx' = 2
                   /\ pc' = "scan"
                   /\ UNCHANGED ret
  /\ decodes' = decodes + 1
  /\ UNCHANGED <<consent, segments>>

\* one iteration of the loop over segments[1:]
ScanSegment ==
  /\ pc = "scan"
  /\ idx - 1 <= Len(TrailingSegments(segments))
  /\ LET s == scanSegment(metadata, TrailingSegments(segments)[idx - 1])
     IN  /\ reads' = reads \o s.reads
         /\ decodes' = decodes + (IF skipsSegment(segments[idx]) THEN 0 ELSE 1)
         /\ IF s.next = "return"
              THEN /\ ret' = ParseStringReturn(s.metadata, s.err)
                   /\ pc' = "done"
                   /\ UNCHANGED <<metadata, idx>>
              ELSE /\ metadata' = s.metadata
                   /\ idx' = idx + 1
                   /\ pc' = IF s.next = "break" THEN "return" ELSE "scan"
                   /\ UNCHANGED ret
  /\ UNCHANGED <<consent, segments>>

\* the loop has ranged over every trailing segment
ScanEnd ==
  /\ pc = "scan"
  /\ idx - 1 > Len(TrailingSegments(segments))
  /\ pc' = "return"
  /\ UNCHANGED <<consent, segments, idx, metadata, ret, reads, decodes>>

\* parseCoreAndDisclosedVendors returns metadata, and ParseString returns it
Return ==
  /\ pc = "return"
  /\ ret' = ParseStringReturn(metadata, NoErr)
  /\ pc' = "done"
  /\ UNCHANGED <<consent, segments, idx, metadata, reads, decodes>>

Next == Enter \/ ParseCore \/ ScanSegment \/ ScanEnd \/ Return

Spec == Init /\ [][Next]_vars

\* the step-by-step call returns what ParseString returns
StepsAgree == pc = "done" => ret = ParseString(consent)

(***************************************************************************)
(* Vocabulary of the properties.                                           *)
(***************************************************************************)
Done == pc = "done"
Succeeded == Done /\ ret.err = NoErr

\* the segments of the input, and those after the first
InputSegments == Split(consent, consentStringTCF2Separator)
InputTrailing == Tail(InputSegments)

\* the first segment decodes and parses as a core string
CoreParses == parseCore(InputSegments).err = NoErr

\* a non-empty segment passes base64 and type-tag decoding
SegmentDecodes(seg) ==
  /\ seg # <<>>
  /\ decodeSegment(seg).err = NoErr
  /\ getSegmentType(decodeSegment(seg).data).err = NoErr
SegmentFailsDecoding(seg) == seg # <<>> /\ ~SegmentDecodes(seg)

\* a segment that carries type tag 1
IsType1(seg) ==
  /\ SegmentDecodes(seg)
  /\ getSegmentType(decodeSegment(seg).data).value = SegmentTypeDisclosedVendors

\* the vendor set of a type 1 segment, and whether it decodes to one
DisclosedSetOf(seg) == parseDisclosedVendorsSegment(decodeSegment(seg).data)
DecodesAsDisclosedVendors(seg) == IsType1(seg) /\ DisclosedSetOf(seg).err = NoErr

\* the vendor ids queried: 0, the small ids, and the largest uint16
QueryIds == (0..MaxQueryId) \cup {65535}

\* the answers of the disclosed-vendors part of the facade
DisclosedView(m) ==
  [has |-> HasDisclosedVendors(m),
   max |-> VendorDisclosedMaxVendorId(m),
   disclosed |-> {id \in QueryIds : VendorDisclosed(m, id)}]

\* the answers of the core-string part of the facade
CoreView(m) ==
  [version |-> Version(m), created |-> Created(m),
   lastUpdated |-> LastUpdated(m), cmpID |-> CmpID(m),
   cmpVersion |-> CmpVersion(m), consentScreen |-> ConsentScreen(m),
   consentLanguage |-> ConsentLanguage(m),
   vendorListVersion |-> VendorListVersion(m),
   tcfPolicyVersion |-> TCFPolicyVersion(m), maxVendorID |-> MaxVendorID(m),
   purposes |-> PurposesAllowed(m),
   vendorConsents |-> {id \in QueryIds : VendorConsent(m, id)},
   vendorLegitInterests |-> {id \in QueryIds : VendorLegitInterest(m, id)},
   publisherRestrictions |-> m.publisherRestrictions]

(***************************************************************************)
(* C1.  ParseString fails (an error, no result) whenever some non-empty    *)
(* segment after the first fails base64 or type-tag decoding, wherever it  *)
(* stands among the trailing segments and whatever precedes it.            *)
(***************************************************************************)
C1_AnyUndecodableSegmentFails ==
  (Done /\ \E i \in DOMAIN InputTrailing : SegmentFailsDecoding(InputTrailing[i]))
    => (ret.err # NoErr /\ ret.result = NilResult)

\* what the code keeps of it: an undecodable segment fails the parse when no
\* decoded Disclosed Vendors segment stands before it (the loop ends there)
ReachedUndecodableSegmentFails ==
  (Done /\ \E i \in DOMAIN InputTrailing :
             /\ SegmentFailsDecoding(InputTrailing[i])
             /\ \A j \in 1..(i - 1) : ~DecodesAsDisclosedVendors(InputTrailing[j]))
    => (ret.err # NoErr /\ ret.result = NilResult)

(***************************************************************************)
(* C2.  After a successful ParseString, HasDisclosedVendors() is true iff  *)
(* some non-empty trailing segment carried type tag 1 and decoded as a     *)
(* Disclosed Vendors segment, whether or not it discloses any vendor.      *)
(***************************************************************************)
C2_HasDisclosedIffType1Decoded ==
  Succeeded =>
    (HasDisclosedVendors(ret.result.meta)
       <=> \E i \in DOMAIN InputTrailing :
             DecodesAsDisclosedVendors(InputTrailing[i]))

\* a type 1 segment with every vendor bit zero was decoded: the flag is true
C2_Witness ==
  /\ Succeeded
  /\ \E i \in DOMAIN InputTrailing : InputTrailing[i] = DVBitFieldNone
  /\ HasDisclosedVendors(ret.result.meta)
  /\ \A id \in QueryIds : ~VendorDisclosed(ret.result.meta, id)

(***************************************************************************)
(* C3.  A string that parses and holds no type 1 segment (core only, or    *)
(* followed by empty or other-type segments) gives HasDisclosedVendors()   *)
(* false and VendorDisclosed(id) false for every id, 0 and 65535 included. *)
(***************************************************************************)
C3_NoDisclosedSegmentAllFalse ==
  (Succeeded /\ \A i \in DOMAIN InputTrailing : ~IsType1(InputTrailing[i]))
    => /\ ~HasDisclosedVendors(ret.result.meta)
       /\ \A id \in QueryIds : ~VendorDisclosed(ret.result.meta, id)

\* a core followed by a Publisher TC segment and an empty one parsed
C3_Witness ==
  /\ Succeeded
  /\ InputTrailing = <<PublisherTC, <<>>>>
  /\ ~HasDisclosedVendors(ret.result.meta)

\* the orderings of n segments
Orderings(n) ==
  {p \in [1..n -> 1..n] : \A i, j \in 1..n : p[i] = p[j] => i = j}

\* the input with its trailing segments in the order p
Reordered(p) ==
  Join(<<InputSegments[1]>> \o [i \in DOMAIN InputTrailing |-> InputTrailing[p[i]]],
       consentStringTCF2Separator)

\* a core that parses, trailing segments that each decode, one of type 1
C4_Case ==
  /\ consent # <<>>
  /\ CoreParses
  /\ \A i \in DOMAIN InputTrailing : SegmentDecodes(InputTrailing[i])
  /\ Cardinality({i \in DOMAIN InputTrailing : IsType1(InputTrailing[i])}) = 1
  /\ \A i \in DOMAIN InputTrailing :
       IsType1(InputTrailing[i]) => DecodesAsDisclosedVendors(InputTrailing[i])

(***************************************************************************)
(* C4.  For a core that parses and trailing segments that each decode, of  *)
(* which exactly one is of type 1, every ordering of the trailing segments *)
(* succeeds with the same HasDisclosedVendors(), the same                  *)
(* VendorDisclosedMaxVendorId() and the same VendorDisclosed(id).          *)
(***************************************************************************)
C4_OrderIndependent ==
  (Done /\ C4_Case) =>
    /\ ret.err = NoErr
    /\ \A p \in Orderings(Len(InputTrailing)) :
         LET r == ParseString(Reordered(p))
         IN  /\ r.err = NoErr
             /\ DisclosedView(r.result.meta) = DisclosedView(ret.result.meta)

\* the Disclosed Vendors segment stood last, behind a Publisher TC segment
C4_Witness ==
  /\ Done /\ C4_Case
  /\ Len(InputTrailing) >= 2
  /\ InputTrailing[1] = PublisherTC
  /\ IsType1(InputTrailing[Len(InputTrailing)])
  /\ VendorDisclosed(ret.result.meta, 3)

\* the input without the empty segments after its first segment
WithoutEmptySegments ==
  Join(<<InputSegments[1]>> \o SelectSeq(InputTrailing, LAMBDA seg : seg # <<>>),
       consentStringTCF2Separator)

(***************************************************************************)
(* C5.  Empty segments after the first are skipped without error or        *)
(* effect: the string parses as the string without them does (the same     *)
(* success or failure, the same result).                                   *)
(***************************************************************************)
C5_EmptySegmentsSkipped ==
  Done =>
    LET r == ParseString(WithoutEmptySegments)
    IN  /\ (r.err = NoErr) <=> (ret.err = NoErr)
        /\ r.result = ret.result

\* an empty segment stood before a Disclosed Vendors segment that was decoded
C5_Witness ==
  /\ Succeeded
  /\ Len(InputTrailing) >= 2
  /\ InputTrailing[1] = <<>>
  /\ IsType1(InputTrailing[2])
  /\ HasDisclosedVendors(ret.result.meta)

\* the type 1 segments of the input, and the first of them
Type1Indexes == {i \in DOMAIN InputTrailing : IsType1(InputTrailing[i])}

FirstType1 == InputTrailing[CHOOSE i \in Type1Indexes : \A j \in Type1Indexes : i <= j]

(***************************************************************************)
(* C6.  With several type 1 segments the first in string order wins: the   *)
(* disclosed vendor set and VendorDisclosedMaxVendorId() are those of the  *)
(* first type 1 segment, at every moment from when they are recorded (no   *)
(* later type 1 segment replaces them) and in the result.                  *)
(***************************************************************************)
C6_FirstDisclosedSegmentWins ==
  (Cardinality(Type1Indexes) >= 2) =>
    /\ metadata.hasDisclosedVendors =>
         /\ metadata.disclosedVendors = DisclosedSetOf(FirstType1).set
         /\ VendorDisclosedMaxVendorId(metadata)
              = DisclosedSetOf(FirstType1).set.maxVendorID
    /\ Succeeded =>
         /\ ret.result.meta.disclosedVendors = DisclosedSetOf(FirstType1).set
         /\ VendorDisclosedMaxVendorId(ret.result.meta)
              = DisclosedSetOf(FirstType1).set.maxVendorID

\* two type 1 segments of different vendor sets, and the first one returned
C6_Witness ==
  /\ Succeeded
  /\ InputTrailing = <<DVBitField2, DVBitField135>>
  /\ VendorDisclosedMaxVendorId(ret.result.meta) = 3
  /\ VendorDisclosed(ret.result.meta, 2)
  /\ ~VendorDisclosed(ret.result.meta, 1)

(***************************************************************************)
(* C7.  ParseString is all-or-nothing: a result with a nil error, or a nil *)
(* result with an error; the empty string fails with the empty-input error *)
(* before any segment is decoded.                                          *)
(***************************************************************************)
C7_AllOrNothing ==
  Done =>
    /\ \/ ret.err = NoErr /\ ~ret.result.nil
       \/ ret.err # NoErr /\ ret.result = NilResult
    /\ consent = <<>> => (ret.err = ErrEmptyDecodedConsent /\ decodes = 0)

\* a trailing segment failed after the core string had been parsed
C7_Witness ==
  /\ Done
  /\ CoreParses
  /\ decodes >= 2
  /\ ret.err # NoErr
  /\ ret.result = NilResult

\* the first type 1 segment is reached by the loop and does not decode
C8_Case ==
  /\ consent # <<>>
  /\ CoreParses
  /\ Type1Indexes # {}
  /\ ~DecodesAsDisclosedVendors(FirstType1)
  /\ \A i \in DOMAIN InputTrailing :
       (\A j \in Type1Indexes : i < j) =>
         (InputTrailing[i] = <<>> \/ SegmentDecodes(InputTrailing[i]))

(***************************************************************************)
(* C8.  For a string whose Disclosed Vendors segment is present but        *)
(* malformed (a type 1 segment of fewer than 3 bytes, or with truncated    *)
(* vendor data), HasDisclosedVendors() returns false.                      *)
(***************************************************************************)
C8_MalformedDisclosedGivesFalse ==
  (Done /\ C8_Case) =>
    (~ret.result.nil /\ HasDisclosedVendors(ret.result.meta) = FALSE)

(***************************************************************************)
(* C9.  Trailing segments change only the disclosed-vendors part: every    *)
(* field derived from the core string equals what Parse yields for the     *)
(* decoded first segment alone; only the disclosed vendor set and the      *)
(* disclosed-vendors flag can differ.                                      *)
(***************************************************************************)
C9_CoreFieldsUntouched ==
  Succeeded =>
    LET core == Parse(decodeSegment(InputSegments[1]).data)
    IN  /\ core.err = NoErr
        /\ CoreView(ret.result.meta) = CoreView(core.result.meta)
        /\ [ret.result.meta EXCEPT !.disclosedVendors = NilResolver,
                                   !.hasDisclosedVendors = FALSE]
             = core.result.meta

\* a Disclosed Vendors segment was recorded on top of the core string
C9_Witness ==
  /\ Succeeded
  /\ HasDisclosedVendors(ret.result.meta)
  /\ VendorDisclosedMaxVendorId(ret.result.meta) # MaxVendorID(ret.result.meta)
  /\ VendorListVersion(ret.result.meta) = 14

DisclosedVendorsSites ==
  {"parseDisclosedVendorsSegment: segmentType",
   "parseDisclosedVendorsSegment: maxVendorID",
   "parseDisclosedVendorsSegment: isRangeEncoding"}

\* where the vendor consent data of a core buffer ends, when it decodes
VendorConsentsOf(data) ==
  parseVendorSection(isSet(data, 229), parseMetadata(data).value,
                     MaxVendorID(parseMetadata(data).value), 230)

\* Parse of the core buffer: an error when the legitimate-interest header
\* does not lie in the buffer, and the set 17 bits after it otherwise
C10_LegitIntHeader(data) ==
  (parseMetadata(data).err = NoErr /\ VendorConsentsOf(data).err = NoErr) =>
    LET legitIntStart == VendorConsentsOf(data).next
        r == Parse(data)
    IN  /\ legitIntStart + 17 > Len(data) => r.err \notin {NoErr, Panic}
        /\ r.err = NoErr =>
             /\ r.result.meta.vendorLegitimateInterestStart = legitIntStart + 17
             /\ r.result.meta.vendorLegitimateInterests.kind = "bitfield" =>
                  r.result.meta.vendorLegitimateInterests.startbit
                    = legitIntStart + 17

(***************************************************************************)
(* C10.  No decode step reads a bit outside its buffer: bit 229 is read    *)
(* only in a buffer that passed the minimum-length check; the              *)
(* legitimate-interest maximum vendor id (16 bits where the vendor consent *)
(* data ended) and its encoding flag (16 bits later) are read only inside  *)
(* the buffer, and otherwise Parse returns an error; the                   *)
(* legitimate-interest set starts 17 bits after that offset; the type tag, *)
(* the maximum vendor id and the flag of a Disclosed Vendors segment are   *)
(* read only when the segment has at least 3 bytes, and otherwise an error *)
(* is returned.                                                            *)
(***************************************************************************)
C10_ReadsInsideBuffer ==
  /\ ret.err # Panic
  /\ \A i \in DOMAIN reads :
       /\ reads[i].off + reads[i].width <= reads[i].len
       /\ reads[i].site = "Parse: 229" => reads[i].len >= MinHeaderBytes * 8
       /\ reads[i].site \in DisclosedVendorsSites
            => reads[i].len >= MinDisclosedVendorsBytes * 8
  /\ (Done /\ consent # <<>> /\ decodeSegment(InputSegments[1]).err = NoErr) =>
       C10_LegitIntHeader(decodeSegment(InputSegments[1]).data)
  /\ Done =>
       \A i \in DOMAIN InputTrailing :
         (SegmentDecodes(InputTrailing[i])
            /\ ByteLen(decodeSegment(InputTrailing[i]).data) < MinDisclosedVendorsBytes)
           => DisclosedSetOf(InputTrailing[i]).err \notin {NoErr, Panic}

\* every read of Parse and of the segment decoder was made, in a parse that
\* succeeded
C10_Witness ==
  /\ Succeeded
  /\ \E i \in DOMAIN reads : reads[i].site = "Parse: legitIntStart+16"
  /\ \E i \in DOMAIN reads :
       reads[i].site = "parseDisclosedVendorsSegment: isRangeEncoding"

=============================================================================
